---- MODULE Spec2Model ----
(***************************************************************************)
(* Model of the browser session orchestrator (BasePlaywrightComputer) and  *)
(* of the remote adapters (BrowserbaseBrowser, LumiTehBrowser, whose       *)
(* lifecycle code is line-for-line the same): session start and teardown,  *)
(* the new-page and page-close handlers, request interception and the      *)
(* input primitives keypress, drag and click.                              *)
(*                                                                         *)
(* The automation engine is modelled by what the session observes of it:   *)
(* the client-side list of open pages of the connection's first context,   *)
(* the listeners registered on pages, and the engine calls issued.         *)
(***************************************************************************)
EXTENDS Integers, Sequences, FiniteSets

(* ----------------------------- bounds --------------------------------- *)
\* Pages that can ever exist in the first context during one session.
MaxPages == 3
\* Pages that may already exist in the context when the session attaches.
MaxInitPages == 2
\* Longest key list given to keypress.
MaxKeys == 2
\* Longest path given to drag.
MaxPath == 3

(* ----------------------------- values --------------------------------- *)
\* Python's None for the _page field.
None == 0
PageIds == 1..MaxPages

Min(a, b) == IF a < b THEN a ELSE b

\* pages[-1]
LastOf(s) == s[Len(s)]

\* reversed(s)
RECURSIVE Reversed(_)
Reversed(s) == IF s = <<>> THEN <<>> ELSE Append(Reversed(Tail(s)), Head(s))

\* the elements of a list, as a set
Range(s) == {s[i] : i \in 1..Len(s)}

\* list.remove(p): the list without its (only) occurrence of p
RECURSIVE Without(_, _)
Without(s, p) ==
    IF s = <<>> THEN <<>>
    ELSE IF Head(s) = p THEN Tail(s)
    ELSE <<Head(s)>> \o Without(Tail(s), p)

\* All sequences over S of length at most n.
RECURSIVE SeqUpTo(_, _)
SeqUpTo(S, n) ==
    IF n = 0 THEN {<<>>}
    ELSE LET shorter == SeqUpTo(S, n - 1)
         IN  shorter \cup {Append(s, e) : s \in {t \in shorter : Len(t) = n - 1}, e \in S}

(* ------------------------- request blocklist -------------------------- *)
\* Hosts a page may request from.
Hosts == {"ads.example.com", "cdn.example.com"}
\* The policy set of blocked hosts.
Blocklist == {"ads.example.com"}
check_blocklisted_url(url) == url \in Blocklist

\* handle_route: the decision taken for one intercepted request.
handle_route(url) ==
    IF check_blocklisted_url(url)
    THEN [outcome |-> "aborted", out |-> <<"Flagging blocked domain">>]
    ELSE [outcome |-> "continued", out |-> <<>>]

\* What happens to a request of page p: the route handler decides when one
\* is installed on p, otherwise the engine lets the request through.
RequestOutcome(routedPages, p, url) ==
    IF p \in routedPages
    THEN handle_route(url)
    ELSE [outcome |-> "continued", out |-> <<>>]

(* ----------------------------- state ---------------------------------- *)
VARIABLES
    phase,          \* "new" | "started" | "enter_failed" | "exited"
    playwright,     \* self._playwright's engine: "none" | "running" | "stopped"
    conn,           \* the browser connection: "none" | "open" | "closed"
    _browser,       \* self._browser is set
    session,        \* self.session is set
    _page,          \* self._page: None or a page id
    pages,          \* browser.contexts[0].pages, in creation order
    closed,         \* pages that have closed
    closeHandlers,  \* pages with _handle_page_close registered on "close"
    routed,         \* pages with handle_route installed
    last,           \* record of the last operation or event
    calls           \* engine input calls issued by the last primitive

vars == <<phase, playwright, conn, _browser, session, _page, pages, closed,
          closeHandlers, routed, last, calls>>

lifecycle == <<phase, playwright, conn, _browser, session, _page, pages,
               closed, closeHandlers, routed>>

Init ==
    /\ phase = "new"
    /\ playwright = "none"
    /\ conn = "none"
    /\ _browser = FALSE
    /\ session = FALSE
    /\ _page = None
    /\ pages = <<>>
    /\ closed = {}
    /\ closeHandlers = {}
    /\ routed = {}
    /\ last = [kind |-> "init"]
    /\ calls = <<>>

(* --------------------------- page handlers ---------------------------- *)
\* Variant of _handle_new_page that registers the listener but leaves the
\* current page as it was.
_handle_new_page_keep(cur, handlers, page) ==
    [page |-> cur, handlers |-> handlers \cup {page}, out |-> <<"New page created">>]

\* _handle_new_page(page): the new current page and the close listeners.
_handle_new_page(cur, handlers, page) ==
    [page |-> page, handlers |-> handlers \cup {page}, out |-> <<"New page created">>]

\* Variant of _handle_page_close that falls back to pages[0].
_handle_page_close_first(cur, ctxPages, page) ==
    IF cur = page
    THEN [page |-> IF ctxPages # <<>> THEN Head(ctxPages) ELSE None,
          out  |-> IF ctxPages # <<>>
                   THEN <<"Page closed">>
                   ELSE <<"Page closed", "Warning: All pages have been closed.">>]
    ELSE [page |-> cur, out |-> <<"Page closed">>]

\* _handle_page_close(page), run with ctxPages = browser.contexts[0].pages
\* as the engine's client has it when the close event is emitted, that is
\* with the closing page already removed.
_handle_page_close(cur, ctxPages, page) ==
    IF cur = page
    THEN [page |-> IF ctxPages # <<>> THEN LastOf(ctxPages) ELSE None,
          out  |-> IF ctxPages # <<>>
                   THEN <<"Page closed">>
                   ELSE <<"Page closed", "Warning: All pages have been closed.">>]
    ELSE [page |-> cur, out |-> <<"Page closed">>]

\* The engine's client closes page p: p leaves the context's page list, then
\* the "close" event is emitted to the listeners registered on p.
ClosePage(st, p) ==
    LET rest == Without(st.pages, p)
        h    == _handle_page_close(st.page, rest, p)
    IN  [st EXCEPT !.pages  = rest,
                   !.closed = @ \cup {p},
                   !.page   = IF p \in st.handlers THEN h.page ELSE @,
                   !.out    = IF p \in st.handlers THEN @ \o h.out ELSE @]

\* Every open page closes, in list order.
RECURSIVE CloseAllPages(_)
CloseAllPages(st) ==
    IF st.pages = <<>> THEN st ELSE CloseAllPages(ClosePage(st, Head(st.pages)))

(* ---------------------------- session start --------------------------- *)
\* The points at which __enter__ can raise, in program order.
EnterFailures == {"none", "session_create", "connect", "no_pages", "goto"}

\* __enter__: start the engine, bootstrap (_get_browser_and_page), install
\* the route handler on the page that bootstrap returned.  n is the number
\* of pages the remote context holds on attach.
Enter(n, fail) ==
    /\ phase = "new"
    /\ (fail = "no_pages") <=> (n = 0)
    /\ playwright' = "running"
    /\ session' = (fail # "session_create")
    /\ conn' = IF fail \in {"session_create", "connect"} THEN "none" ELSE "open"
    /\ pages' = IF conn' = "open" THEN [i \in 1..n |-> i] ELSE <<>>
    /\ closeHandlers' = IF fail \in {"none", "goto"} THEN {1} ELSE {}
    /\ IF fail = "none"
       THEN /\ phase' = "started"
            /\ _browser' = TRUE
            /\ _page' = 1
            /\ routed' = {1}
       ELSE /\ phase' = "enter_failed"
            /\ UNCHANGED <<_browser, _page, routed>>
    /\ closed' = closed
    /\ last' = [kind |-> "enter", raised |-> fail]
    /\ calls' = <<>>

(* ------------------------------ events -------------------------------- *)
\* Page ids are handed out in creation order.
NextPageId == Len(pages) + Cardinality(closed) + 1

\* The context's "page" event: a page was created in the first context.
NewPageEvent ==
    /\ phase = "started"
    /\ NextPageId \in PageIds
    /\ LET p == NextPageId
           h == _handle_new_page(_page, closeHandlers, p)
       IN  /\ pages' = Append(pages, p)
           /\ _page' = h.page
           /\ closeHandlers' = h.handlers
           /\ last' = [kind |-> "newpage", page |-> p, out |-> h.out]
    /\ calls' = <<>>
    /\ UNCHANGED <<phase, playwright, conn, _browser, session, closed, routed>>

\* An open page p closes (by the site, the remote user or the provider).
PageCloseEvent(p) ==
    /\ phase = "started"
    /\ p \in Range(pages)
    /\ LET st == ClosePage([page |-> _page, pages |-> pages, closed |-> closed,
                            handlers |-> closeHandlers, out |-> <<>>], p)
       IN  /\ pages' = st.pages
           /\ closed' = st.closed
           /\ _page' = st.page
           /\ last' = [kind |-> "close", page |-> p,
                       tracked |-> p \in closeHandlers,
                       wasCurrent |-> (_page = p), out |-> st.out]
    /\ calls' = <<>>
    /\ UNCHANGED <<phase, playwright, conn, _browser, session, closeHandlers, routed>>

\* An open page p issues a request to host url.
Request(p, url) ==
    /\ phase = "started"
    /\ p \in Range(pages)
    /\ LET r == RequestOutcome(routed, p, url)
       IN  last' = [kind |-> "request", page |-> p, url |-> url,
                    outcome |-> r.outcome, out |-> r.out]
    /\ calls' = <<>>
    /\ UNCHANGED lifecycle

(* ----------------------------- teardown ------------------------------- *)
\* Variant of __exit__ that closes the connection before the page.
__exit__swapped == <<"browser.close", "page.close", "playwright.stop">>

\* The release steps of __exit__, in program order.
__exit__ == <<"page.close", "browser.close", "playwright.stop">>

\* The `if self._x:` guard of each step.
StepGuard(s, st) ==
    CASE s = "page.close"      -> st.page # None
      [] s = "browser.close"   -> st.browser
      [] s = "playwright.stop" -> st.playwright # "none"

\* The effect of a step that does not raise.  deliver: whether the close
\* events of the pages that go away with the connection reach the session's
\* listeners before browser.close() returns.
StepEffect(s, st, deliver) ==
    CASE s = "page.close" ->
            IF st.page \in Range(st.pages) THEN ClosePage(st, st.page) ELSE st
      [] s = "browser.close" ->
            LET gone == [st EXCEPT !.conn = "closed", !.openAtConnClose = Range(st.pages)]
            IN  IF deliver THEN CloseAllPages(gone)
                ELSE [gone EXCEPT !.pages = <<>>, !.closed = @ \cup Range(st.pages)]
      [] s = "playwright.stop" ->
            [st EXCEPT !.playwright = "stopped"]

\* Run the steps in order; the step named by fail raises, which ends the
\* handler there (no step is wrapped in a try).
RECURSIVE RunSteps(_, _, _, _)
RunSteps(steps, st, fail, deliver) ==
    IF steps = <<>> THEN st
    ELSE LET s == Head(steps) IN
         IF ~StepGuard(s, st) THEN RunSteps(Tail(steps), st, fail, deliver)
         ELSE IF fail = s
              THEN [st EXCEPT !.attempted = Append(@, s), !.raised = s]
              ELSE RunSteps(Tail(steps),
                            StepEffect(s, [st EXCEPT !.attempted = Append(@, s)], deliver),
                            fail, deliver)

ExitFailures == {"none", "page.close", "browser.close", "playwright.stop"}

\* __exit__ of the remote adapters, run when the with-block is left.
Exit(fail, deliver) ==
    /\ phase = "started"
    /\ LET st0 == [page |-> _page, pages |-> pages, closed |-> closed,
                   handlers |-> closeHandlers, out |-> <<>>,
                   browser |-> _browser, conn |-> conn, playwright |-> playwright,
                   attempted |-> <<>>, raised |-> "none", openAtConnClose |-> {}]
           st  == RunSteps(__exit__, st0, fail, deliver)
       IN  /\ st.raised = fail
           /\ _page' = st.page
           /\ pages' = st.pages
           /\ closed' = st.closed
           /\ conn' = st.conn
           /\ playwright' = st.playwright
           /\ last' = [kind |-> "exit", attempted |-> st.attempted, raised |-> st.raised,
                       hadPage |-> (_page # None),
                       pageAtStart |-> _page, openAtStart |-> Range(pages),
                       openAtConnClose |-> st.openAtConnClose,
                       out |-> IF st.raised = "none" /\ session
                               THEN st.out \o <<"Session completed">> ELSE st.out]
    /\ phase' = "exited"
    /\ calls' = <<>>
    /\ UNCHANGED <<_browser, session, closeHandlers, routed>>

(* --------------------------- key mapping ------------------------------ *)
\* A key name is the sequence of its characters.
UpperChars == <<"A", "B", "C", "D", "E", "F", "G", "H", "I", "J", "K", "L", "M",
                "N", "O", "P", "Q", "R", "S", "T", "U", "V", "W", "X", "Y", "Z">>
LowerChars == <<"a", "b", "c", "d", "e", "f", "g", "h", "i", "j", "k", "l", "m",
                "n", "o", "p", "q", "r", "s", "t", "u", "v", "w", "x", "y", "z">>

\* The lower-case letter of each upper-case letter.
LowerOf ==
    [c \in {UpperChars[i] : i \in 1..Len(UpperChars)} |->
        LowerChars[CHOOSE i \in 1..Len(UpperChars) : UpperChars[i] = c]]

\* str.lower() on one (ASCII) character
LowerChar(c) == IF c \in DOMAIN LowerOf THEN LowerOf[c] ELSE c

\* key.lower()
RECURSIVE Lower(_)
Lower(key) ==
    IF key = <<>> THEN <<>> ELSE <<LowerChar(Head(key))>> \o Lower(Tail(key))

\* The entries of the table, as written in the source.
KeyTableEntries == {
    [cua |-> <<"/">>, pw |-> <<"D", "i", "v", "i", "d", "e">>],
    [cua |-> <<"\\">>, pw |-> <<"B", "a", "c", "k", "s", "l", "a", "s", "h">>],
    [cua |-> <<"a", "l", "t">>, pw |-> <<"A", "l", "t">>],
    [cua |-> <<"a", "r", "r", "o", "w", "d", "o", "w", "n">>, pw |-> <<"A", "r", "r", "o", "w", "D", "o", "w", "n">>],
    [cua |-> <<"a", "r", "r", "o", "w", "l", "e", "f", "t">>, pw |-> <<"A", "r", "r", "o", "w", "L", "e", "f", "t">>],
    [cua |-> <<"a", "r", "r", "o", "w", "r", "i", "g", "h", "t">>, pw |-> <<"A", "r", "r", "o", "w", "R", "i", "g", "h", "t">>],
    [cua |-> <<"a", "r", "r", "o", "w", "u", "p">>, pw |-> <<"A", "r", "r", "o", "w", "U", "p">>],
    [cua |-> <<"b", "a", "c", "k", "s", "p", "a", "c", "e">>, pw |-> <<"B", "a", "c", "k", "s", "p", "a", "c", "e">>],
    [cua |-> <<"c", "a", "p", "s", "l", "o", "c", "k">>, pw |-> <<"C", "a", "p", "s", "L", "o", "c", "k">>],
    [cua |-> <<"c", "m", "d">>, pw |-> <<"M", "e", "t", "a">>],
    [cua |-> <<"c", "t", "r", "l">>, pw |-> <<"C", "o", "n", "t", "r", "o", "l">>],
    [cua |-> <<"d", "e", "l", "e", "t", "e">>, pw |-> <<"D", "e", "l", "e", "t", "e">>],
    [cua |-> <<"e", "n", "d">>, pw |-> <<"E", "n", "d">>],
    [cua |-> <<"e", "n", "t", "e", "r">>, pw |-> <<"E", "n", "t", "e", "r">>],
    [cua |-> <<"e", "s", "c">>, pw |-> <<"E", "s", "c", "a", "p", "e">>],
    [cua |-> <<"h", "o", "m", "e">>, pw |-> <<"H", "o", "m", "e">>],
    [cua |-> <<"i", "n", "s", "e", "r", "t">>, pw |-> <<"I", "n", "s", "e", "r", "t">>],
    [cua |-> <<"o", "p", "t", "i", "o", "n">>, pw |-> <<"A", "l", "t">>],
    [cua |-> <<"p", "a", "g", "e", "d", "o", "w", "n">>, pw |-> <<"P", "a", "g", "e", "D", "o", "w", "n">>],
    [cua |-> <<"p", "a", "g", "e", "u", "p">>, pw |-> <<"P", "a", "g", "e", "U", "p">>],
    [cua |-> <<"s", "h", "i", "f", "t">>, pw |-> <<"S", "h", "i", "f", "t">>],
    [cua |-> <<"s", "p", "a", "c", "e">>, pw |-> <<" ">>],
    [cua |-> <<"s", "u", "p", "e", "r">>, pw |-> <<"M", "e", "t", "a">>],
    [cua |-> <<"t", "a", "b">>, pw |-> <<"T", "a", "b">>],
    [cua |-> <<"w", "i", "n">>, pw |-> <<"M", "e", "t", "a">>]
}

\* The table as a dict: key name -> key identifier.
CUA_KEY_TO_PLAYWRIGHT_KEY ==
    [k \in {e.cua : e \in KeyTableEntries} |->
        (CHOOSE e \in KeyTableEntries : e.cua = k).pw]

\* dict.get(k, default)
DictGet(dict, k, default) == IF k \in DOMAIN dict THEN dict[k] ELSE default

\* Variant of MapKey that looks the name up as given.
MapKey_case_sensitive(key) == DictGet(CUA_KEY_TO_PLAYWRIGHT_KEY, key, key)

\* CUA_KEY_TO_PLAYWRIGHT_KEY.get(key.lower(), key)
MapKey(key) == DictGet(CUA_KEY_TO_PLAYWRIGHT_KEY, Lower(key), key)

\* Key names the agent sends: table entries in lower, upper and mixed case,
\* and names the table does not hold.
KeyNames == { <<"c", "t", "r", "l">>, <<"C", "T", "R", "L">>, <<"S", "h", "i", "f", "t">>,
              <<"A">> }

(* ------------------------- input primitives --------------------------- *)
\* Coordinates the agent sends.
Points == {[x |-> 3, y |-> 8], [x |-> 8, y |-> 3]}
Buttons == {"left", "right", "middle", "wheel", "back", "forward"}

\* One call on the engine's page object.  a, b: its numeric arguments;
\* key: its key argument; button: its string argument (a button, a url).
Call(op, a, b, key, button) ==
    [op |-> op, a |-> a, b |-> b, key |-> key, button |-> button]

KeyDown(key)  == Call("keyboard.down", 0, 0, key, "")
KeyUp(key)    == Call("keyboard.up", 0, 0, key, "")
MouseMove(x, y) == Call("mouse.move", x, y, <<>>, "")
MouseDown     == Call("mouse.down", 0, 0, <<>>, "")
MouseUp       == Call("mouse.up", 0, 0, <<>>, "")
MouseClick(x, y, button) == Call("mouse.click", x, y, <<>>, button)
\* mouse.wheel(delta_x, delta_y)
MouseWheel(dx, dy) == Call("mouse.wheel", dx, dy, <<>>, "")
GoBack        == Call("go_back", 0, 0, <<>>, "")
GoForward     == Call("go_forward", 0, 0, <<>>, "")
GoTo(url)     == Call("goto", 0, 0, <<>>, url)
\* evaluate("window.scrollBy(scroll_x, scroll_y)")
ScrollBy(dx, dy) == Call("evaluate.scrollBy", dx, dy, <<>>, "")

\* mapped_keys = [MapKey(key) for key in keys]
RECURSIVE MappedKeys(_)
MappedKeys(keys) ==
    IF keys = <<>> THEN <<>> ELSE <<MapKey(Head(keys))>> \o MappedKeys(Tail(keys))

\* for key in ks: keyboard.down(key)
RECURSIVE PressAll(_)
PressAll(ks) ==
    IF ks = <<>> THEN <<>> ELSE <<KeyDown(Head(ks))>> \o PressAll(Tail(ks))

\* for key in ks: keyboard.up(key)
RECURSIVE ReleaseAll(_)
ReleaseAll(ks) ==
    IF ks = <<>> THEN <<>> ELSE <<KeyUp(Head(ks))>> \o ReleaseAll(Tail(ks))

\* Variant of keypress that releases in the order pressed.
keypress_same_order(keys) ==
    PressAll(MappedKeys(keys)) \o ReleaseAll(MappedKeys(keys))

\* keypress(keys): the engine calls it issues, in order.
keypress(keys) ==
    PressAll(MappedKeys(keys)) \o ReleaseAll(Reversed(MappedKeys(keys)))

\* for point in points: mouse.move(point["x"], point["y"])
RECURSIVE MoveThrough(_)
MoveThrough(points) ==
    IF points = <<>> THEN <<>>
    ELSE <<MouseMove(Head(points).x, Head(points).y)>> \o MoveThrough(Tail(points))

\* Variant of drag that presses and releases at every point.
RECURSIVE drag_click_each(_)
drag_click_each(path) ==
    IF path = <<>> THEN <<>>
    ELSE <<MouseMove(Head(path).x, Head(path).y), MouseDown, MouseUp>>
         \o drag_click_each(Tail(path))

\* drag(path): the engine calls it issues, in order.
drag(path) ==
    IF path = <<>> THEN <<>>
    ELSE <<MouseMove(path[1].x, path[1].y), MouseDown>>
         \o MoveThrough(Tail(path))
         \o <<MouseUp>>

\* back() and forward()
back == <<GoBack>>
forward == <<GoForward>>

\* Variant of ButtonType that hands the button name on as given.
ButtonType_passthrough(button) == button

\* button_mapping.get(button, "left")
ButtonType(button) == IF button \in {"left", "right"} THEN button ELSE "left"

\* Variant of click without the navigation cases.
click_no_nav(x, y, button) ==
    CASE button = "wheel"   -> <<MouseWheel(x, y)>>
      [] OTHER              -> <<MouseClick(x, y, ButtonType(button))>>

\* click(x, y, button): the engine calls it issues, in order.
click(x, y, button) ==
    CASE button = "back"    -> back
      [] button = "forward" -> forward
      [] button = "wheel"   -> <<MouseWheel(x, y)>>
      [] OTHER              -> <<MouseClick(x, y, ButtonType(button))>>

\* Where the engine's pointer is after the calls cs when it was at p0 before:
\* mouse.move and mouse.click place it, every other call leaves it, and
\* mouse.wheel scrolls by its deltas at the place the pointer is.
RECURSIVE PointerAfter(_, _)
PointerAfter(cs, p0) ==
    IF cs = <<>> THEN p0
    ELSE PointerAfter(Tail(cs),
                      IF Head(cs).op \in {"mouse.move", "mouse.click"}
                      THEN [x |-> Head(cs).a, y |-> Head(cs).b]
                      ELSE p0)

\* Places the pointer may be at when a primitive starts.
PointerStarts == {[x |-> 0, y |-> 0]} \cup Points

\* Variant of scroll that scrolls before it moves the pointer.
scroll_before_move(x, y, scroll_x, scroll_y) ==
    <<ScrollBy(scroll_x, scroll_y), MouseMove(x, y)>>

\* scroll(x, y, scroll_x, scroll_y): the engine calls it issues, in order.
scroll(x, y, scroll_x, scroll_y) ==
    <<MouseMove(x, y), ScrollBy(scroll_x, scroll_y)>>

\* Scroll amounts the agent sends.
ScrollDeltas == {[x |-> 0, y |-> 5], [x |-> 7, y |-> 0]}

\* Addresses the agent navigates to.
Urls == {"https://example.com"}

\* What dereferencing self._page for an engine call raises: None has no
\* attributes, and the engine rejects calls on a page that has closed.
PageError ==
    IF _page = None THEN "AttributeError"
    ELSE IF _page \notin Range(pages) THEN "TargetClosedError"
    ELSE "none"

\* The error a primitive that issues the calls cs on self._page ends with:
\* the first call raises when the page cannot be used.
IssueError(cs) == IF cs = <<>> THEN "none" ELSE PageError

\* The calls that reach the engine: none when the first one raises.
Issued(cs) == IF IssueError(cs) = "none" THEN cs ELSE <<>>

\* The record a primitive leaves: what it was called with (rec), how it
\* ended and the calls it made.
Perform(rec, cs) ==
    /\ last' = [rec EXCEPT !.err = IssueError(cs)]
    /\ calls' = Issued(cs)

\* The navigation calls among the engine calls.
NavOps == {"go_back", "go_forward", "goto"}

\* The error a primitive ends with when the navigation it asks for fails in
\* the engine (navfail): nothing catches it, so it reaches the caller.
NavError(cs, navfail) ==
    IF IssueError(cs) # "none" THEN IssueError(cs)
    ELSE IF navfail /\ \E i \in 1..Len(cs) : cs[i].op \in NavOps THEN "NavigationError"
    ELSE "none"

\* The record a primitive that may navigate leaves.
PerformNav(rec, cs, navfail) ==
    /\ last' = [rec EXCEPT !.err = NavError(cs, navfail)]
    /\ calls' = Issued(cs)

\* Variant of goto without the try/except.
goto_propagating(url, pageErr, navfail) ==
    [err   |-> IF pageErr # "none" THEN pageErr
               ELSE IF navfail THEN "NavigationError" ELSE "none",
     out   |-> <<>>,
     calls |-> IF pageErr = "none" THEN <<GoTo(url)>> ELSE <<>>]

\* goto(url): any exception of self._page.goto(url) is caught and printed.
goto(url, pageErr, navfail) ==
    [err   |-> "none",
     out   |-> IF pageErr # "none" \/ navfail THEN <<"Error navigating">> ELSE <<>>,
     calls |-> IF pageErr = "none" THEN <<GoTo(url)>> ELSE <<>>]

(* --------------------------- observations ----------------------------- *)
\* The "return value" of a call that raised.
Raised == "<raised>"
\* Python's None as the result of the in-page script.
PyNone == "None"

\* What the DOM extraction script may hand back: nothing, an empty tree, a
\* tree.
ScriptResults == {PyNone, "{}", "{html}"}

\* Variant of dom without the None test.
dom_unchecked(pageErr, eval) ==
    IF pageErr # "none" THEN [err |-> pageErr, ret |-> Raised]
    ELSE [err |-> "none", ret |-> IF eval = PyNone THEN "{}" ELSE eval]

\* dom(): evaluate the script on self._page; None is an error, anything
\* else is returned as it came.
dom(pageErr, eval) ==
    IF pageErr # "none" THEN [err |-> pageErr, ret |-> Raised]
    ELSE IF eval = PyNone THEN [err |-> "ValueError", ret |-> Raised]
    ELSE [err |-> "none", ret |-> eval]

\* get_current_url(): self._page.url, an attribute of the page object.
get_current_url(page) ==
    IF page = None THEN [err |-> "AttributeError", ret |-> Raised]
    ELSE [err |-> "none", ret |-> "page.url"]

\* How the engine's viewport capture ends.
ShotOutcomes == {"ok", "fail"}

\* BasePlaywrightComputer.screenshot(): base64 of self._page.screenshot().
screenshot(pageErr, shot) ==
    IF pageErr # "none" THEN [err |-> pageErr, ret |-> Raised]
    ELSE IF shot = "fail" THEN [err |-> "PlaywrightError", ret |-> Raised]
    ELSE [err |-> "none", ret |-> "b64(viewport.png)"]

\* How the CDP capture (new_cdp_session, send, result["data"]) ends: with
\* the data, with the engine's error type, or with another exception (a
\* reply without "data" is a KeyError).
CdpOutcomes == {"ok", "PlaywrightError", "OtherError"}

\* Variant of the adapters' screenshot that answers an empty string when
\* there is no page.
screenshot_cdp_guarded(pageErr, cdp, shot) ==
    IF pageErr = "AttributeError"
    THEN [err |-> "none", ret |-> "", out |-> <<>>]
    ELSE IF pageErr = "TargetClosedError" \/ cdp = "PlaywrightError"
    THEN LET d == screenshot(pageErr, shot)
         IN  [err |-> d.err, ret |-> d.ret, out |-> <<"CDP screenshot failed">>]
    ELSE IF cdp = "OtherError"
    THEN [err |-> "OtherError", ret |-> Raised, out |-> <<>>]
    ELSE [err |-> "none", ret |-> "cdp.data", out |-> <<>>]

\* screenshot() of the remote adapters: the CDP capture inside a try whose
\* except clause names PlaywrightError and falls back to the base method.
\* self._page.context on None raises AttributeError inside the try; a closed
\* page makes new_cdp_session raise the engine's error.
screenshot_cdp(pageErr, cdp, shot) ==
    IF pageErr = "AttributeError"
    THEN [err |-> "AttributeError", ret |-> Raised, out |-> <<>>]
    ELSE IF pageErr = "TargetClosedError" \/ cdp = "PlaywrightError"
    THEN LET d == screenshot(pageErr, shot)
         IN  [err |-> d.err, ret |-> d.ret, out |-> <<"CDP screenshot failed">>]
    ELSE IF cdp = "OtherError"
    THEN [err |-> "OtherError", ret |-> Raised, out |-> <<>>]
    ELSE [err |-> "none", ret |-> "cdp.data", out |-> <<>>]

(* --------------------------- typed actions ---------------------------- *)
\* The actions handed to execute_action: the class of the object, whether
\* its selectors attribute is a list (FALSE: it is None), and the list.
Act(type, hasSelectors, selectors) ==
    [type |-> type, hasSelectors |-> hasSelectors, selectors |-> selectors]

Actions ==
    { Act("Other", FALSE, <<>>),
      Act("BrowserAction", FALSE, <<>>),
      Act("InteractionAction", FALSE, <<>>),
      Act("InteractionAction", TRUE, <<>>),
      Act("InteractionAction", TRUE, <<"#a">>),
      Act("InteractionAction", TRUE, <<"#a", "#b">>) }

\* The sets of selectors that resolve on the live page.
Resolvables == {{}, {"#b"}, {"#a", "#b"}}

\* One step of execute_action: what was called, on which page, for which
\* element.
Step(op, page, target) == [op |-> op, page |-> page, target |-> target]

\* The first selector of the list that resolves; "" when none does.
RECURSIVE FirstResolvable(_, _)
FirstResolvable(selectors, resolvable) ==
    IF selectors = <<>> THEN ""
    ELSE IF Head(selectors) \in resolvable THEN Head(selectors)
    ELSE FirstResolvable(Tail(selectors), resolvable)

\* locate_element(page, selectors): the selectors are tried in order on the
\* page; when none resolves the resolution fails with a not-found error.
locate_element(pageErr, selectors, resolvable) ==
    IF selectors = <<>> THEN [err |-> "ElementResolutionError", elem |-> ""]
    ELSE IF pageErr # "none" THEN [err |-> pageErr, elem |-> ""]
    ELSE IF FirstResolvable(selectors, resolvable) = ""
    THEN [err |-> "ElementResolutionError", elem |-> ""]
    ELSE [err |-> "none", elem |-> FirstResolvable(selectors, resolvable)]

\* short_wait(page): the settle delay.
short_wait(page) == Step("short_wait", page, "")

\* Variant of dispatch that resolves only when there are selectors to
\* resolve and otherwise executes the verb without an element.
dispatch_unresolved(action, page, pageErr, xpage, xpageErr, resolvable, verbfail) ==
    IF action.type = "BrowserAction"
    THEN IF pageErr = "AttributeError"
         THEN [err |-> pageErr, steps |-> <<>>]
         ELSE [err   |-> IF pageErr # "none" THEN pageErr
                         ELSE IF verbfail THEN "ActionError" ELSE "none",
               steps |-> <<Step("action.execute", page, "")>>]
    ELSE IF action.type = "InteractionAction"
    THEN IF ~action.hasSelectors \/ action.selectors = <<>>
         THEN [err   |-> IF pageErr # "none" THEN pageErr
                         ELSE IF verbfail THEN "ActionError" ELSE "none",
               steps |-> <<Step("action.execute", page, "")>>]
         ELSE IF locate_element(pageErr, action.selectors, resolvable).err # "none"
         THEN [err   |-> locate_element(pageErr, action.selectors, resolvable).err,
               steps |-> <<Step("locate_element", page, "")>>]
         ELSE IF xpageErr = "AttributeError"
         THEN [err |-> xpageErr, steps |-> <<Step("locate_element", page, "")>>]
         ELSE [err   |-> IF xpageErr # "none" THEN xpageErr
                         ELSE IF verbfail THEN "ActionError" ELSE "none",
               steps |-> <<Step("locate_element", page, ""),
                           Step("action.execute", xpage,
                                locate_element(pageErr, action.selectors, resolvable).elem)>>]
    ELSE [err |-> "ValueError", steps |-> <<>>]

\* The isinstance chain of execute_action.  A BrowserAction is executed on
\* self._page.context and self._page; an InteractionAction must have
\* selectors (assert), they are resolved on self._page (page) and the verb
\* is executed with the locator on self._page read again (xpage); anything
\* else is a ValueError.  verbfail: the verb raises in the engine.
dispatch(action, page, pageErr, xpage, xpageErr, resolvable, verbfail) ==
    IF action.type = "BrowserAction"
    THEN IF pageErr = "AttributeError"
         THEN [err |-> pageErr, steps |-> <<>>]
         ELSE [err   |-> IF pageErr # "none" THEN pageErr
                         ELSE IF verbfail THEN "ActionError" ELSE "none",
               steps |-> <<Step("action.execute", page, "")>>]
    ELSE IF action.type = "InteractionAction"
    THEN IF ~action.hasSelectors
         THEN [err |-> "AssertionError", steps |-> <<>>]
         ELSE IF locate_element(pageErr, action.selectors, resolvable).err # "none"
         THEN [err   |-> locate_element(pageErr, action.selectors, resolvable).err,
               steps |-> <<Step("locate_element", page, "")>>]
         ELSE IF xpageErr = "AttributeError"
         THEN [err |-> xpageErr, steps |-> <<Step("locate_element", page, "")>>]
         ELSE [err   |-> IF xpageErr # "none" THEN xpageErr
                         ELSE IF verbfail THEN "ActionError" ELSE "none",
               steps |-> <<Step("locate_element", page, ""),
                           Step("action.execute", xpage,
                                locate_element(pageErr, action.selectors, resolvable).elem)>>]
    ELSE [err |-> "ValueError", steps |-> <<>>]

\* Variant of execute_action with the settle delay in a finally clause.
execute_action_finally(d, page) ==
    [err |-> d.err, steps |-> Append(d.steps, short_wait(page))]

\* execute_action: the dispatch d, then short_wait(self._page); an exception
\* of the dispatch leaves the method before the wait.
execute_action(d, page) ==
    IF d.err = "none"
    THEN [err |-> "none", steps |-> Append(d.steps, short_wait(page))]
    ELSE d

\* The pages as the engine's client has them, with self._page.
Current ==
    [page |-> _page, pages |-> pages, closed |-> closed,
     handlers |-> closeHandlers, out |-> <<>>]

\* A page event the engine's client dispatches while a call of the sync API
\* waits for the engine: none, the "page" event of a new page, the close of
\* an open page.
Event(type, page) == [type |-> type, page |-> page]
NoEvent == Event("none", None)

\* The events there are: none, the "page" event of the page the context
\* creates next, the close of a page.
Events == {NoEvent, Event("newpage", None)} \cup {Event("close", p) : p \in PageIds}

\* ev can be dispatched now.
InCallEvent(ev) ==
    \/ ev.type = "none"
    \/ ev.type = "newpage" /\ NextPageId \in PageIds
    \/ ev.type = "close" /\ ev.page \in Range(pages)

\* The handlers run for event ev on st.
Deliver(st, ev) ==
    IF ev.type = "newpage"
    THEN [st EXCEPT !.pages    = Append(@, NextPageId),
                    !.page     = _handle_new_page(st.page, st.handlers, NextPageId).page,
                    !.handlers = _handle_new_page(st.page, st.handlers, NextPageId).handlers,
                    !.out      = @ \o _handle_new_page(st.page, st.handlers, NextPageId).out]
    ELSE IF ev.type = "close" THEN ClosePage(st, ev.page)
    ELSE st

\* The error action.execute(self._page.context, self._page, locator) ends
\* with when the pages are st: self._page is None, or it or the page of the
\* locator (located) has closed.
ExecError(located, st) ==
    IF st.page = None THEN "AttributeError"
    ELSE IF st.page \notin Range(st.pages) \/ located \notin Range(st.pages)
    THEN "TargetClosedError"
    ELSE "none"

\* The points of execute_action at which an event is dispatched: 0 none,
\* 1 in locate_element, 2 in action.execute.
Gaps == 0..2

\* An event and the point at which it is dispatched.
Moments ==
    {[gap |-> 0, ev |-> NoEvent]}
        \cup {[gap |-> g, ev |-> e] : g \in Gaps \ {0}, e \in Events \ {NoEvent}}

\* An action and the selectors that resolve; these only matter when the
\* action has selectors to try.
Targets ==
    {[action |-> a, resolvable |-> r] : a \in Actions, r \in Resolvables} \
    {[action |-> a, resolvable |-> r] :
        a \in {b \in Actions : b.type # "InteractionAction" \/ b.selectors = <<>>},
        r \in Resolvables \ {{}}}

\* The call with the pages st1 at action.execute and its dispatch d; an
\* event of gap 2 is handled before short_wait reads self._page.
Executed(action, gap, ev, st1, d) ==
    /\ gap = 2 => d.err = "none"
    /\ LET st2 == IF gap = 2 THEN Deliver(st1, ev) ELSE st1
       IN  /\ last' = [kind |-> "execute_action", action |-> action,
                       err |-> execute_action(d, st2.page).err,
                       steps |-> execute_action(d, st2.page).steps,
                       gap |-> gap, ev |-> ev]
           /\ _page' = st2.page
           /\ pages' = st2.pages
           /\ closed' = st2.closed
           /\ closeHandlers' = st2.handlers

\* resolvable only matters when there are selectors to try.
Located(action, resolvable) ==
    /\ action.type = "InteractionAction"
    /\ action.hasSelectors
    /\ locate_element(PageError, action.selectors, resolvable).err = "none"

ExecuteAction(action, resolvable, verbfail, gap, ev) ==
    /\ phase = "started"
    /\ InCallEvent(ev)
    /\ gap = 1 => Located(action, resolvable)
    /\ LET st1 == IF gap = 1 THEN Deliver(Current, ev) ELSE Current
       IN  /\ verbfail =>
                dispatch(action, _page, PageError, st1.page, ExecError(_page, st1),
                         resolvable, verbfail).err = "ActionError"
           /\ Executed(action, gap, ev, st1,
                       dispatch(action, _page, PageError, st1.page, ExecError(_page, st1),
                                resolvable, verbfail))
    /\ calls' = <<>>
    /\ UNCHANGED <<phase, playwright, conn, _browser, session, routed>>

Dom(eval) ==
    /\ phase = "started"
    /\ LET r == dom(PageError, eval)
       IN  last' = [kind |-> "dom", script |-> eval, err |-> r.err, ret |-> r.ret]
    /\ calls' = <<>>
    /\ UNCHANGED lifecycle

GetCurrentUrl ==
    /\ phase = "started"
    /\ LET r == get_current_url(_page)
       IN  last' = [kind |-> "url", err |-> r.err, ret |-> r.ret]
    /\ calls' = <<>>
    /\ UNCHANGED lifecycle

\* shot only matters when the fallback is taken.
Screenshot(cdp, shot) ==
    /\ phase = "started"
    /\ shot = "fail" => cdp = "PlaywrightError"
    /\ LET r == screenshot_cdp(PageError, cdp, shot)
       IN  last' = [kind |-> "screenshot", cdp |-> cdp, shot |-> shot,
                    err |-> r.err, ret |-> r.ret, out |-> r.out]
    /\ calls' = <<>>
    /\ UNCHANGED lifecycle

\* The key lists and the paths the agent sends.
KeyLists == SeqUpTo(KeyNames, MaxKeys)
Paths == SeqUpTo(Points, MaxPath)

Keypress(keys) ==
    /\ phase = "started"
    /\ Perform([kind |-> "keypress", keys |-> keys, err |-> "none"], keypress(keys))
    /\ UNCHANGED lifecycle

Drag(path) ==
    /\ phase = "started"
    /\ Perform([kind |-> "drag", path |-> path, err |-> "none"], drag(path))
    /\ UNCHANGED lifecycle

\* navfail: the navigation that the click asks for fails in the engine.
Click(x, y, button, navfail) ==
    /\ phase = "started"
    /\ navfail => button \in {"back", "forward"}
    /\ PerformNav([kind |-> "click", x |-> x, y |-> y, button |-> button,
                   navfail |-> navfail, err |-> "none"],
                  click(x, y, button), navfail)
    /\ UNCHANGED lifecycle

Scroll(x, y, scroll_x, scroll_y) ==
    /\ phase = "started"
    /\ Perform([kind |-> "scroll", x |-> x, y |-> y, dx |-> scroll_x, dy |-> scroll_y,
                err |-> "none"],
               scroll(x, y, scroll_x, scroll_y))
    /\ UNCHANGED lifecycle

Goto(url, navfail) ==
    /\ phase = "started"
    /\ LET r == goto(url, PageError, navfail)
       IN  /\ last' = [kind |-> "goto", url |-> url, navfail |-> navfail,
                       err |-> r.err, out |-> r.out]
           /\ calls' = r.calls
    /\ UNCHANGED lifecycle

Back(navfail) ==
    /\ phase = "started"
    /\ PerformNav([kind |-> "back", navfail |-> navfail, err |-> "none"], back, navfail)
    /\ UNCHANGED lifecycle

Forward(navfail) ==
    /\ phase = "started"
    /\ PerformNav([kind |-> "forward", navfail |-> navfail, err |-> "none"], forward, navfail)
    /\ UNCHANGED lifecycle

(* --------------------------- specification ---------------------------- *)
Next ==
    \/ \E n \in 0..Min(MaxInitPages, MaxPages), fail \in EnterFailures : Enter(n, fail)
    \/ NewPageEvent
    \/ \E p \in PageIds : PageCloseEvent(p)
    \/ \E p \in PageIds, url \in Hosts : Request(p, url)
    \/ \E fail \in ExitFailures, deliver \in BOOLEAN : Exit(fail, deliver)
    \/ \E keys \in KeyLists : Keypress(keys)
    \/ \E path \in Paths : Drag(path)
    \/ \E p \in Points, button \in Buttons, navfail \in BOOLEAN :
          Click(p.x, p.y, button, navfail)
    \/ \E p \in Points, d \in ScrollDeltas : Scroll(p.x, p.y, d.x, d.y)
    \/ \E url \in Urls, navfail \in BOOLEAN : Goto(url, navfail)
    \/ \E navfail \in BOOLEAN : Back(navfail)
    \/ \E navfail \in BOOLEAN : Forward(navfail)
    \/ \E eval \in ScriptResults : Dom(eval)
    \/ GetCurrentUrl
    \/ \E t \in Targets, verbfail \in BOOLEAN, m \in Moments :
          ExecuteAction(t.action, t.resolvable, verbfail, m.gap, m.ev)
    \/ \E cdp \in CdpOutcomes, shot \in ShotOutcomes : Screenshot(cdp, shot)

Spec == Init /\ [][Next]_vars

(* ------------------------------ claims -------------------------------- *)
Warning == "Warning: All pages have been closed."

\* C1: in a started session, a request issued by the page that is then
\* current is aborted when its host is blocklisted and continued otherwise,
\* also after a new-page or page-close event reassigned the current page.
C1_CurrentPageRequestsChecked ==
    (phase = "started" /\ last.kind = "request" /\ last.page = _page) =>
        last.outcome = (IF last.url \in Blocklist THEN "aborted" ELSE "continued")

\* C2: every teardown step is attempted whether or not an earlier step
\* raised; when closing the current page raises, the connection close and
\* the engine stop are still executed.
C2_TeardownStepsIndependent ==
    last.kind = "exit" =>
        /\ {"browser.close", "playwright.stop"} \subseteq Range(last.attempted)
        /\ last.raised = "page.close" => (conn = "closed" /\ playwright = "stopped")

\* C3: after the close event of a tracked page that was current, the current
\* page is the last page left in the first context, or None with the warning
\* printed when none is left; it is never the page that closed.
C3_CloseReassignsCurrent ==
    (last.kind = "close" /\ last.tracked /\ last.wasCurrent) =>
        /\ _page # last.page
        /\ _page \notin closed
        /\ IF pages = <<>>
           THEN _page = None /\ Warning \in Range(last.out)
           ELSE _page = pages[Len(pages)] /\ Warning \notin Range(last.out)

C3_Witness ==
    /\ last.kind = "close" /\ last.tracked /\ last.wasCurrent
    /\ Len(pages) >= 2
    /\ _page = pages[Len(pages)]

\* C4: after every new-page event the page it created is the current page
\* (so the latest event wins) and has the close handler registered.
C4_NewPageBecomesCurrent ==
    last.kind = "newpage" =>
        /\ _page = last.page
        /\ last.page \in closeHandlers
        /\ last.page \in Range(pages)

\* a second new-page event in a row: pages 2 and 3 both came from events
C4_Witness ==
    /\ last.kind = "newpage" /\ last.page = 3 /\ _page = 3
    /\ {2, 3} \subseteq closeHandlers
    /\ 2 \in Range(pages)

\* C5: on every exit path of a scoped session, a raising bootstrap included,
\* all pages are closed, the connection is closed and the engine is stopped.
C5_ReleasedOnEveryExitPath ==
    phase \in {"exited", "enter_failed"} =>
        /\ pages = <<>>
        /\ conn # "open"
        /\ playwright # "running"

C7_KeypressDownThenReverseUp ==
    (last.kind = "keypress" /\ last.err = "none") =>
        LET n == Len(last.keys) IN
        /\ Len(calls) = 2 * n
        /\ \A i \in 1..n :
              /\ calls[i] = KeyDown(MapKey(last.keys[i]))
              /\ calls[2 * n + 1 - i] = KeyUp(MapKey(last.keys[i]))

\* ctrl+shift: down Control, down Shift, up Shift, up Control
C7_Witness ==
    /\ last.kind = "keypress" /\ last.err = "none"
    /\ last.keys = << <<"c", "t", "r", "l">>, <<"S", "h", "i", "f", "t">> >>
    /\ calls[3] = KeyUp(<<"S", "h", "i", "f", "t">>)
    /\ calls[4] = KeyUp(<<"C", "o", "n", "t", "r", "o", "l">>)

\* C8: keypress([k]) presses and releases the identifier the table holds for
\* k lower-cased, and k itself, unchanged, when the table has no such entry.
C8_KeypressMapsThroughTable ==
    (last.kind = "keypress" /\ last.err = "none" /\ Len(last.keys) = 1) =>
        LET k == last.keys[1] IN
        /\ Len(calls) = 2
        /\ calls[1].op = "keyboard.down" /\ calls[2].op = "keyboard.up"
        /\ calls[1].key = calls[2].key
        /\ \A e \in KeyTableEntries :
              (Len(e.cua) = Len(k) /\ \A i \in 1..Len(k) : e.cua[i] = LowerChar(k[i]))
                  => calls[1].key = e.pw
        /\ (\A e \in KeyTableEntries :
              ~(Len(e.cua) = Len(k) /\ \A i \in 1..Len(k) : e.cua[i] = LowerChar(k[i])))
                  => calls[1].key = k

\* keypress(["CTRL"]) presses and releases Control
C8_Witness ==
    /\ last.kind = "keypress" /\ last.err = "none"
    /\ last.keys = << <<"C", "T", "R", "L">> >>
    /\ calls = <<KeyDown(<<"C", "o", "n", "t", "r", "o", "l">>),
                 KeyUp(<<"C", "o", "n", "t", "r", "o", "l">>)>>

\* C9: drag issues nothing for an empty path; otherwise a move to the first
\* point, one button-down, a move to each later point in order, one
\* button-up, and nothing else.
C9_DragSingleGesture ==
    last.kind = "drag" =>
        LET n == Len(last.path) IN
        /\ n = 0 => (calls = <<>> /\ last.err = "none")
        /\ (n > 0 /\ last.err = "none") =>
              /\ Len(calls) = n + 2
              /\ calls[1] = MouseMove(last.path[1].x, last.path[1].y)
              /\ calls[2] = MouseDown
              /\ \A i \in 2..n : calls[i + 1] = MouseMove(last.path[i].x, last.path[i].y)
              /\ calls[n + 2] = MouseUp
              /\ Cardinality({i \in 1..Len(calls) : calls[i].op = "mouse.down"}) = 1
              /\ Cardinality({i \in 1..Len(calls) : calls[i].op = "mouse.up"}) = 1
        /\ last.err # "none" => calls = <<>>

C9_Witness ==
    /\ last.kind = "drag" /\ last.err = "none"
    /\ Len(last.path) = 3
    /\ last.path[1] # last.path[2] /\ last.path[2] # last.path[3]
    /\ Len(calls) = 5

\* C10: click with button "back" (or "forward") issues the back (forward)
\* navigation and no pointer click, whatever x and y are.
C10_ClickBackForwardNavigates ==
    (last.kind = "click" /\ last.button \in {"back", "forward"}) =>
        /\ \A i \in 1..Len(calls) : calls[i].op # "mouse.click"
        /\ last.err = "none" =>
              calls = <<IF last.button = "back" THEN GoBack ELSE GoForward>>

C10_Witness ==
    /\ last.kind = "click" /\ last.button = "back" /\ last.err = "none"
    /\ last.x = 8 /\ last.y = 3
    /\ calls = <<GoBack>>
\* C11: click with button "wheel" makes a wheel-scroll gesture at the
\* position (x, y), wherever the pointer was before, and no pointer click.
C11_WheelGestureAtPosition ==
    (last.kind = "click" /\ last.button = "wheel" /\ last.err = "none") =>
        /\ \A i \in 1..Len(calls) : calls[i].op # "mouse.click"
        /\ \E i \in 1..Len(calls) :
              /\ calls[i].op = "mouse.wheel"
              /\ \A p0 \in PointerStarts :
                    PointerAfter(SubSeq(calls, 1, i - 1), p0) = [x |-> last.x, y |-> last.y]

\* C12: click with a button other than back, forward and wheel issues one
\* pointer click at (x, y) and nothing else: with the right button for
\* "right", with the left button for "left" and for any other name.
C12_ClickDefaultsToLeft ==
    (last.kind = "click" /\ last.button \notin {"back", "forward", "wheel"}) =>
        /\ last.err = "none" =>
              calls = <<MouseClick(last.x, last.y,
                                   IF last.button = "right" THEN "right" ELSE "left")>>
        /\ last.err # "none" => calls = <<>>

\* click(3, 8, "middle") is a left click at (3, 8)
C12_Witness ==
    /\ last.kind = "click" /\ last.button = "middle" /\ last.err = "none"
    /\ last.x = 3 /\ last.y = 8
    /\ calls = <<MouseClick(3, 8, "left")>>
\* C16: a navigation failure inside goto is swallowed: goto prints it and
\* returns without an error; inside back and forward it reaches the caller,
\* also when they are reached through click with button back or forward.
C16_GotoSwallowsBackForwardPropagate ==
    /\ last.kind = "goto" =>
          /\ last.err = "none"
          /\ last.navfail => "Error navigating" \in Range(last.out)
    /\ (last.kind \in {"back", "forward"} /\ last.navfail) =>
          /\ last.err # "none"
          /\ calls # <<>> => last.err = "NavigationError"
    /\ (last.kind = "click" /\ last.navfail) =>
          /\ last.err # "none"
          /\ calls # <<>> => last.err = "NavigationError"

\* a goto whose navigation failed on a usable page
C16_Witness ==
    /\ last.kind = "goto" /\ last.navfail /\ last.err = "none"
    /\ calls = <<GoTo("https://example.com")>>

\* C19: scroll first moves the pointer to (x, y) and only then scrolls the
\* viewport by (dx, dy).
C19_ScrollMovesFirst ==
    last.kind = "scroll" =>
        /\ last.err = "none" =>
              calls = <<MouseMove(last.x, last.y), ScrollBy(last.dx, last.dy)>>
        /\ \A i \in 1..Len(calls) :
              calls[i].op = "evaluate.scrollBy" =>
                  \E j \in 1..(i - 1) : calls[j] = MouseMove(last.x, last.y)
        /\ last.err # "none" => calls = <<>>

C19_Witness ==
    /\ last.kind = "scroll" /\ last.err = "none"
    /\ last.x = 3 /\ last.y = 8 /\ last.dx = 0 /\ last.dy = 5
    /\ calls = <<MouseMove(3, 8), ScrollBy(0, 5)>>
\* The steps of the last execute_action that called op.
StepsOf(op) == {i \in 1..Len(last.steps) : last.steps[i].op = op}

\* C13: execute_action on an InteractionAction whose selector list is empty
\* or missing fails with the resolution error or the contract violation, and
\* the verb is never executed.
C13_EmptySelectorsNeverExecute ==
    (/\ last.kind = "execute_action"
     /\ last.action.type = "InteractionAction"
     /\ (~last.action.hasSelectors \/ last.action.selectors = <<>>)) =>
        /\ last.err \in {"ElementResolutionError", "AssertionError"}
        /\ StepsOf("action.execute") = {}
        /\ StepsOf("short_wait") = {}

\* an empty list on a usable page: resolution was tried and failed
C13_Witness ==
    /\ last.kind = "execute_action"
    /\ last.action = Act("InteractionAction", TRUE, <<>>)
    /\ last.err = "ElementResolutionError"
    /\ last.steps = <<Step("locate_element", _page, "")>>
    /\ _page \in Range(pages)

\* C14: when the CDP capture fails, in whatever way, screenshot() does not
\* surface that failure: it returns what the default viewport capture
\* returns, and raises only when the default capture fails too.
C14_CaptureFailureFallsBack ==
    (last.kind = "screenshot" /\ last.cdp # "ok") =>
        LET d == screenshot(PageError, last.shot)
        IN  d.err = "none" => (last.err = "none" /\ last.ret = d.ret)

\* C15: dom() raises when the script hands back nothing and then returns no
\* tree at all; when the script hands back a tree, dom() returns that tree
\* unchanged.
C15_DomRaisesOnNoResult ==
    (last.kind = "dom" /\ last.err \notin {"AttributeError", "TargetClosedError"}) =>
        /\ last.script = PyNone => (last.err = "ValueError" /\ last.ret = Raised)
        /\ last.script # PyNone => (last.err = "none" /\ last.ret = last.script)

C15_Witness ==
    /\ last.kind = "dom" /\ last.script = PyNone
    /\ last.err = "ValueError" /\ last.ret = Raised
    /\ _page \in Range(pages)

\* C17: execute_action on an action of another class fails with the
\* invalid-action error and executes no verb; the settle delay is the last
\* step of every dispatch that succeeded and is absent after a failed one.
C17_InvalidActionAndSettle ==
    last.kind = "execute_action" =>
        /\ last.action.type = "Other" =>
              (last.err = "ValueError" /\ StepsOf("action.execute") = {})
        /\ last.err = "none" =>
              /\ StepsOf("short_wait") = {Len(last.steps)}
              /\ StepsOf("action.execute") = {Len(last.steps) - 1}
        /\ last.err # "none" => StepsOf("short_wait") = {}

\* the verb of an action with selectors raised on a usable page: no wait
C17_Witness ==
    /\ last.kind = "execute_action"
    /\ last.action.type = "InteractionAction"
    /\ last.err = "ActionError"
    /\ StepsOf("action.execute") # {}
    /\ _page \in Range(pages)

\* C18: with no current page, screenshot() (the adapters' and the inherited
\* one) and get_current_url() raise and return nothing.
C18_NoPageRaises ==
    (phase = "started" /\ _page = None) =>
        /\ last.kind \in {"screenshot", "url"} => (last.err # "none" /\ last.ret = Raised)
        /\ \A cdp \in CdpOutcomes, shot \in ShotOutcomes :
              /\ screenshot_cdp(PageError, cdp, shot).err # "none"
              /\ screenshot_cdp(PageError, cdp, shot).ret = Raised
              /\ screenshot(PageError, shot).err # "none"
              /\ screenshot(PageError, shot).ret = Raised
        /\ get_current_url(_page).err # "none"

\* every page has closed, the current page is None, screenshot() raised
C18_Witness ==
    /\ phase = "started" /\ _page = None /\ pages = <<>>
    /\ last.kind = "screenshot" /\ last.err = "AttributeError"
\* C20: in a started session, whatever pages opened and closed (those that
\* were in the context on attach and have no close handler included), the
\* current page is None or a page that is still open.
C20_CurrentPageNeverClosed ==
    phase = "started" => (_page = None \/ _page \in Range(pages))
\* C21: within one execute_action on an InteractionAction the element is
\* resolved, the verb executed and the settle delay run on one and the same
\* page, also when a page event changes self._page between these steps.
C21_OnePagePerCall ==
    (last.kind = "execute_action" /\ last.action.type = "InteractionAction") =>
        \A i, j \in 1..Len(last.steps) : last.steps[i].page = last.steps[j].page
====
